---------------------------- MODULE Spec2Model ----------------------------
(***************************************************************************)
(* Invoice / SMS matcher (src/app.py).                                     *)
(*                                                                         *)
(* process_and_display validates the two texts, match_invoice sends them   *)
(* with the prompt to the generative model, strips the answer and recovers *)
(* a score from it (primary "FINAL SCORE:" pattern, reverse line scan,     *)
(* default 0).  Texts are sequences of one-character strings so that       *)
(* strip, split, lower and the two regular expressions are computed        *)
(* character by character, as Python computes them.                        *)
(***************************************************************************)
EXTENDS Integers, Sequences, FiniteSets, TLC

(***************************************************************************)
(* Bounds of the model.                                                    *)
(***************************************************************************)
\* longest narrative of the extractor, counted in fragments of Fragments
MaxFrags == 3
\* number of requests that run side by side under SpecConc
NumRequests == 2

(***************************************************************************)
(* Characters and text constants.                                          *)
(***************************************************************************)
NL == "\n"

ValidationMessage ==
    <<"P", "l", "e", "a", "s", "e", " ", "p", "r", "o", "v", "i", "d", "e",
      " ", "b", "o", "t", "h", " ", "a", "n", " ", "i", "n", "v", "o", "i",
      "c", "e", " ", "t", "e", "x", "t", " ", "a", "n", "d", " ", "S", "M",
      "S", " ", "t", "e", "x", "t", ".">>

ErrorPrefix ==
    <<"E", "r", "r", "o", "r", " ", "p", "r", "o", "c", "e", "s", "s", "i",
      "n", "g", ":", " ">>

\* the literal head of the primary pattern, as IGNORECASE compares it
final_score_head ==
    <<"f", "i", "n", "a", "l", " ", "s", "c", "o", "r", "e", ":">>

\* the keywords of the fallback scan
keywords ==
    { <<"s", "c", "o", "r", "e">>,
      <<"f", "i", "n", "a", "l">>,
      <<"r", "e", "s", "u", "l", "t">> }

UpperToLower ==
    "A" :> "a" @@ "B" :> "b" @@ "C" :> "c" @@ "D" :> "d" @@ "E" :> "e" @@
    "F" :> "f" @@ "G" :> "g" @@ "H" :> "h" @@ "I" :> "i" @@ "J" :> "j" @@
    "K" :> "k" @@ "L" :> "l" @@ "M" :> "m" @@ "N" :> "n" @@ "O" :> "o" @@
    "P" :> "p" @@ "Q" :> "q" @@ "R" :> "r" @@ "S" :> "s" @@ "T" :> "t" @@
    "U" :> "u" @@ "V" :> "v" @@ "W" :> "w" @@ "X" :> "x" @@ "Y" :> "y" @@
    "Z" :> "z"

DigitValue ==
    "0" :> 0 @@ "1" :> 1 @@ "2" :> 2 @@ "3" :> 3 @@ "4" :> 4 @@
    "5" :> 5 @@ "6" :> 6 @@ "7" :> 7 @@ "8" :> 8 @@ "9" :> 9

Min(S) == CHOOSE x \in S : \A y \in S : x <= y
Max(S) == CHOOSE x \in S : \A y \in S : x >= y

(***************************************************************************)
(* Python string operations.                                               *)
(***************************************************************************)
\* str.strip() and the regex class \s: the whitespace characters
IsSpace(c) == c \in {" ", NL, "\t", "\r"}

\* str.strip(): drop the leading and the trailing whitespace
Strip(s) ==
    LET keep == {i \in 1..Len(s) : ~IsSpace(s[i])}
    IN  IF keep = {} THEN <<>> ELSE SubSeq(s, Min(keep), Max(keep))

\* str.lower(), and the case folding of re.IGNORECASE
LowerChar(c) == IF c \in DOMAIN UpperToLower THEN UpperToLower[c] ELSE c
Lower(s) == [i \in 1..Len(s) |-> LowerChar(s[i])]

\* sub in s
Contains(s, sub) ==
    \E i \in 1..(Len(s) - Len(sub) + 1) : SubSeq(s, i, i + Len(sub) - 1) = sub

\* str.split('\n')
RECURSIVE Split(_)
Split(s) ==
    LET nls == {i \in 1..Len(s) : s[i] = NL}
    IN  IF nls = {} THEN <<s>>
        ELSE <<SubSeq(s, 1, Min(nls) - 1)>>
               \o Split(SubSeq(s, Min(nls) + 1, Len(s)))

(***************************************************************************)
(* match_invoice: the score extraction.                                    *)
(***************************************************************************)
NoMatch == "None"

\* a character wider than the class the code uses: any decimal digit
IsAnyDigit(c) == c \in DOMAIN DigitValue
\* the character class [0-4] of both regular expressions
IsScoreDigit(c) == c \in {"0", "1", "2", "3", "4"}

\* where \s* stops when it starts at position j: the first position from j
\* on that holds no whitespace (Len(t) + 1 when the text ends first)
SkipSpaces(t, j) ==
    Min({k \in j..(Len(t) + 1) : k = Len(t) + 1 \/ ~IsSpace(t[k])})

\* the pattern FINAL SCORE:\s*([0-4]) under re.IGNORECASE matches at i
MatchesAt(t, i) ==
    /\ i + Len(final_score_head) - 1 <= Len(t)
    /\ Lower(SubSeq(t, i, i + Len(final_score_head) - 1)) = final_score_head
    /\ LET k == SkipSpaces(t, i + Len(final_score_head))
       IN  k <= Len(t) /\ IsScoreDigit(t[k])

\* re.search(r"FINAL SCORE:\s*([0-4])", text, re.IGNORECASE): group(1) of
\* the leftmost match, NoMatch when there is none
score_match(t) ==
    LET at == {i \in 1..Len(t) : MatchesAt(t, i)}
    IN  IF at = {} THEN NoMatch
        ELSE t[SkipSpaces(t, Min(at) + Len(final_score_head))]

\* any(keyword in line.lower() for keyword in ['score', 'final', 'result'])
HasKeyword(line) == \E kw \in keywords : Contains(Lower(line), kw)

\* re.search(r"[0-4]", line): the leftmost character of the class
digit_match(line) ==
    LET at == {i \in 1..Len(line) : IsScoreDigit(line[i])}
    IN  IF at = {} THEN NoMatch ELSE line[Min(at)]

\* for line in reversed(lines): ... break / else: score = 0
RECURSIVE ScanReversed(_, _)
ScanReversed(lines, k) ==
    IF k = 0 THEN [score |-> 0, path |-> "default"]
    ELSE IF HasKeyword(lines[k]) /\ digit_match(lines[k]) # NoMatch
         THEN [score |-> DigitValue[digit_match(lines[k])], path |-> "fallback"]
         ELSE ScanReversed(lines, k - 1)

\* lines 92-105: the score of the stripped answer and the branch that set it
\* (lines is bound through a singleton: the split is evaluated once)
ExtractScore(t) ==
    LET group1 == score_match(t)
    IN  IF group1 # NoMatch
        THEN [score |-> DigitValue[group1], path |-> "primary"]
        ELSE CHOOSE found \in
                 {ScanReversed(lines, Len(lines)) : lines \in {Split(t)}} : TRUE


(***************************************************************************)
(* The prompt's scoring rubric (lines 43-47).  A comparison is the tuple   *)
(* <<amount, date, name, additional>> of what matched.                     *)
(***************************************************************************)
Comparisons == BOOLEAN \X BOOLEAN \X BOOLEAN \X BOOLEAN

\* whether the bullet that awards p points applies to comparison f
PromptCriterion(p, f) ==
    CASE p = 0 -> ~f[1] /\ ~f[2] /\ ~f[3] /\ ~f[4]      \* Nothing matches
      [] p = 1 -> f[1] /\ ~f[2] /\ ~f[3] /\ ~f[4]       \* ONLY the amount
      [] p = 2 -> f[1] /\ (f[2] \/ f[3])
      [] p = 3 -> f[1] /\ f[2] /\ f[3]
      [] p = 4 -> f[1] /\ f[2] /\ f[3] /\ f[4]

\* the points the rubric awards to f: those of every bullet that applies
PromptPoints(f) == {p \in 0..4 : PromptCriterion(p, f)}

\* the score line of the output format (line 82): FINAL SCORE: <digit>
FinalScoreLine(d) ==
    <<"F", "I", "N", "A", "L", " ", "S", "C", "O", "R", "E", ":", " ">>
      \o <<CHOOSE c \in DOMAIN DigitValue : DigitValue[c] = d>>

\* the narratives of a model that follows the prompt for comparison f: the
\* score line with the points of a bullet that applies; where no bullet
\* applies the prompt leaves the points open
RubricNarratives(f) ==
    {FinalScoreLine(d) :
        d \in IF PromptPoints(f) = {} THEN 0..4 ELSE PromptPoints(f)}

(***************************************************************************)
(* The inputs and the behaviours of the generative model.                  *)
(***************************************************************************)
InvoiceTexts == { <<>>, <<" ">>, <<"a">> }
SmsTexts == { <<>>, <<NL>>, <<"b">>, <<" ", "b">> }

Fragments ==
    { <<"F", "I", "N", "A", "L", " ", "S", "C", "O", "R", "E", ":">>,
      <<"F", "i", "n", "a", "l", " ", "s", "c", "o", "r", "e", ":">>,
      <<"s", "c", "o", "r", "e">>,
      <<"R", "e", "s", "u", "l", "t">>,
      <<"x">>, <<" ">>, <<NL>>,
      <<"0">>, <<"1">>, <<"2">>, <<"3">>, <<"4">>, <<"7">> }

RECURSIVE Concatenations(_)
Concatenations(n) ==
    IF n = 0 THEN { <<>> }
    ELSE LET shorter == Concatenations(n - 1)
         IN  shorter \cup {s \o f : s \in shorter, f \in Fragments}

\* the answers of the generative model under Spec
Narratives == Concatenations(MaxFrags)

\* the answers of the generative model under SpecConc
ConcNarratives ==
    { <<"F", "I", "N", "A", "L", " ", "S", "C", "O", "R", "E", ":", " ", "3">>,
      <<NL, "s", "c", "o", "r", "e", " ", "1", "0", NL>>,
      <<"n", "o", " ", "m", "a", "t", "c", "h">>,
      ErrorPrefix \o <<"t", "i", "m", "e", "o", "u", "t">> }

\* what generate_content (or resp.text) may raise: the exception's class
\* and str(e)
Failures ==
    { [type |-> "DeadlineExceeded", msg |-> <<"t", "i", "m", "e", "o", "u", "t">>],
      [type |-> "ResourceExhausted", msg |-> <<"q", "u", "o", "t", "a">>],
      [type |-> "ValueError", msg |-> <<"n", "o", " ", "t", "e", "x", "t">>] }

NoFlags == <<>>
NoResult == <<>>
NoResp == [kind |-> "none", text |-> <<>>, msg |-> <<>>]

(***************************************************************************)
(* State.                                                                  *)
(***************************************************************************)
VARIABLES
    pc,            \* per request: "idle", "calling", "parsing", "done", "raised"
    invoice_text,  \* per request: process_and_display's first argument
    sms_text,      \* per request: process_and_display's second argument
    calls,         \* per request: invocations of model.generate_content
    resp,          \* per request: what generate_content answered
    flags,         \* per request: the comparison behind a rubric answer
    text,          \* per frame: match_invoice's local text
    path,          \* per request: the branch that set score
    result         \* per request: the returned <<score, report>>

vars == <<pc, invoice_text, sms_text, calls, resp, flags, text, path, result>>

InitFor(requests) ==
    /\ pc = [r \in requests |-> "idle"]
    /\ invoice_text = [r \in requests |-> <<>>]
    /\ sms_text = [r \in requests |-> <<>>]
    /\ calls = [r \in requests |-> 0]
    /\ resp = [r \in requests |-> NoResp]
    /\ flags = [r \in requests |-> NoFlags]
    /\ text = [r \in requests |-> <<>>]
    /\ path = [r \in requests |-> "none"]
    /\ result = [r \in requests |-> NoResult]

(***************************************************************************)
(* process_and_display and match_invoice.                                  *)
(***************************************************************************)
\* a validation that forgets strip()
InvalidInputNoStrip(invoice, sms) == invoice = <<>> \/ sms = <<>>
\* line 111: not invoice_text.strip() or not sms_text.strip()
InvalidInput(invoice, sms) == Strip(invoice) = <<>> \/ Strip(sms) = <<>>

\* a handler that catches the timeout alone
CatchesTimeoutOnly(e) == e.type = "DeadlineExceeded"
\* line 117: except Exception (every failure of the call is an Exception)
Catches(e) == e.type \in {f.type : f \in Failures}

\* a single frame that every call shares
SharedFrame(r) == Min(DOMAIN text)
\* the frame holding the locals of request r's call of match_invoice
FrameOf(r) == r

\* lines 109-115 and 16-88: a request arrives; it is refused, or the prompt
\* and both texts go to model.generate_content
Request(r) ==
    /\ pc[r] = "idle"
    /\ \E invoice \in InvoiceTexts, sms \in SmsTexts :
         /\ invoice_text' = [invoice_text EXCEPT ![r] = invoice]
         /\ sms_text' = [sms_text EXCEPT ![r] = sms]
         /\ IF InvalidInput(invoice, sms)
            THEN /\ result' = [result EXCEPT ![r] = <<0, ValidationMessage>>]
                 /\ pc' = [pc EXCEPT ![r] = "done"]
                 /\ calls' = calls
            ELSE /\ calls' = [calls EXCEPT ![r] = @ + 1]
                 /\ pc' = [pc EXCEPT ![r] = "calling"]
                 /\ result' = result
    /\ UNCHANGED <<resp, flags, text, path>>

\* lines 88-89: generate_content answers narrative, text = resp.text.strip()
Answer(r, narrative, f) ==
    /\ pc[r] = "calling"
    /\ resp' = [resp EXCEPT ![r] = [kind |-> "text", text |-> narrative, msg |-> <<>>]]
    /\ flags' = [flags EXCEPT ![r] = f]
    /\ text' = [text EXCEPT ![FrameOf(r)] = Strip(narrative)]
    /\ pc' = [pc EXCEPT ![r] = "parsing"]
    /\ UNCHANGED <<invoice_text, sms_text, calls, path, result>>

\* the model answers any narrative
Respond(r) ==
    /\ pc[r] = "calling"
    /\ \E narrative \in Narratives : Answer(r, narrative, NoFlags)

RespondConc(r) ==
    /\ pc[r] = "calling"
    /\ \E narrative \in ConcNarratives : Answer(r, narrative, NoFlags)

\* the model compares the two texts and answers as the prompt tells it to
RespondByRubric(r) ==
    /\ pc[r] = "calling"
    /\ \E f \in Comparisons : \E narrative \in RubricNarratives(f) :
         Answer(r, narrative, f)

\* lines 88-89 raise, lines 117-118 handle
Fail(r) ==
    /\ pc[r] = "calling"
    /\ \E e \in Failures :
         /\ resp' = [resp EXCEPT ![r] = [kind |-> "error", text |-> <<>>, msg |-> e.msg]]
         /\ IF Catches(e)
            THEN /\ result' = [result EXCEPT ![r] = <<0, ErrorPrefix \o e.msg>>]
                 /\ pc' = [pc EXCEPT ![r] = "done"]
            ELSE /\ result' = result
                 /\ pc' = [pc EXCEPT ![r] = "raised"]
    /\ UNCHANGED <<invoice_text, sms_text, calls, flags, text, path>>

\* lines 92-107 and 115-116: the score is extracted and the pair returned
Parse(r) ==
    /\ pc[r] = "parsing"
    /\ LET found == ExtractScore(text[FrameOf(r)])
       IN  /\ path' = [path EXCEPT ![r] = found.path]
           /\ result' = [result EXCEPT ![r] = <<found.score, text[FrameOf(r)]>>]
    /\ pc' = [pc EXCEPT ![r] = "done"]
    /\ UNCHANGED <<invoice_text, sms_text, calls, resp, flags, text>>

(***************************************************************************)
(* Specifications.                                                         *)
(***************************************************************************)
OneRequest == {1}
Requests == 1..NumRequests

\* one request, every narrative of Narratives
Init == InitFor(OneRequest)

Next ==
    \/ \E r \in OneRequest : Request(r)
    \/ \E r \in OneRequest : Respond(r)
    \/ \E r \in OneRequest : Fail(r)
    \/ \E r \in OneRequest : Parse(r)

Spec == Init /\ [][Next]_vars

\* NumRequests requests side by side
InitConc == InitFor(Requests)

NextConc ==
    \/ \E r \in Requests : Request(r)
    \/ \E r \in Requests : RespondConc(r)
    \/ \E r \in Requests : Fail(r)
    \/ \E r \in Requests : Parse(r)

SpecConc == InitConc /\ [][NextConc]_vars

\* one request, answered by a model that follows the prompt's rubric
NextRubric ==
    \/ \E r \in OneRequest : Request(r)
    \/ \E r \in OneRequest : RespondByRubric(r)
    \/ \E r \in OneRequest : Fail(r)
    \/ \E r \in OneRequest : Parse(r)

SpecRubric == Init /\ [][NextRubric]_vars

(***************************************************************************)
(* Vocabulary of the properties.                                           *)
(***************************************************************************)
IsDigit(c) == c \in {"0", "1", "2", "3", "4", "5", "6", "7", "8", "9"}

IsLetter(c) ==
    c \in DOMAIN UpperToLower \/ c \in {UpperToLower[u] : u \in DOMAIN UpperToLower}

\* empty, or whitespace from end to end
IsWhitespaceOnly(s) == \A i \in 1..Len(s) : IsSpace(s[i])

Answered(r) == pc[r] = "done" /\ resp[r].kind = "text"

\* "FINAL SCORE:" (any case), optional whitespace, then a digit 0-4 that is
\* the whole number: no further digit follows it
SingleDigitAt(t, i) ==
    /\ MatchesAt(t, i)
    /\ LET k == SkipSpaces(t, i + Len(final_score_head))
       IN  k = Len(t) \/ ~IsDigit(t[k + 1])

\* a digit 0-4 with no letter and no digit on either side
StandaloneAt(line, i) ==
    /\ IsScoreDigit(line[i])
    /\ i = 1 \/ ~(IsDigit(line[i - 1]) \/ IsLetter(line[i - 1]))
    /\ i = Len(line) \/ ~(IsDigit(line[i + 1]) \/ IsLetter(line[i + 1]))

\* the reverse scan over standalone digits: the leftmost standalone digit of
\* the last keyword line that has one, 0 when no line has one
RECURSIVE StandaloneScan(_, _)
StandaloneScan(lines, k) ==
    IF k = 0 THEN 0
    ELSE LET at == {i \in 1..Len(lines[k]) : StandaloneAt(lines[k], i)}
         IN  IF HasKeyword(lines[k]) /\ at # {}
             THEN DigitValue[lines[k][Min(at)]]
             ELSE StandaloneScan(lines, k - 1)

\* the rule table: 0 without an amount match, then one tier per condition
TableScore(f) ==
    IF ~f[1] THEN 0
    ELSE IF ~f[2] /\ ~f[3] THEN 1
    ELSE IF ~(f[2] /\ f[3]) THEN 2
    ELSE IF ~f[4] THEN 3
    ELSE 4

\* what a request with these texts and this answer returns when it is the
\* only request the service ever handles
RunAlone(invoice, sms, reply) ==
    IF IsWhitespaceOnly(invoice) \/ IsWhitespaceOnly(sms)
    THEN <<0, ValidationMessage>>
    ELSE IF reply.kind = "error"
         THEN <<0, ErrorPrefix \o reply.msg>>
         ELSE <<ExtractScore(Strip(reply.text)).score, Strip(reply.text)>>

(***************************************************************************)
(* Properties.                                                             *)
(***************************************************************************)
\* C1: a request whose invoice text or SMS text is empty or whitespace-only
\* returns score 0 with the validation message, and generate_content is
\* never invoked for it.
C1_BlankInputShortCircuits ==
    \A r \in DOMAIN pc :
        (pc[r] # "idle"
           /\ (IsWhitespaceOnly(invoice_text[r]) \/ IsWhitespaceOnly(sms_text[r])))
        => /\ calls[r] = 0
           /\ pc[r] = "done"
           /\ result[r] = <<0, ValidationMessage>>

\* a request with a proper invoice and a whitespace-only SMS was refused
C1_Witness ==
    \E r \in DOMAIN pc :
        /\ pc[r] = "done"
        /\ invoice_text[r] = <<"a">>
        /\ sms_text[r] = <<NL>>
        /\ result[r] = <<0, ValidationMessage>>
        /\ calls[r] = 0

\* C2: the report returned for an answered request is character for
\* character the raw answer of the generative model, leading and trailing
\* whitespace included.
C2_ReportVerbatim ==
    \A r \in DOMAIN pc : Answered(r) => result[r][2] = resp[r].text

\* C3: the primary branch sets the score exactly when the narrative holds
\* "FINAL SCORE:" (any case) followed by a single digit 0-4, and the score
\* is then that digit; "FINAL SCORE: 42" does not give 4.
C3_PrimaryOnSingleDigit ==
    \A r \in DOMAIN pc :
        Answered(r) =>
            LET t == resp[r].text
                at == {i \in 1..Len(t) : SingleDigitAt(t, i)}
            IN  /\ (path[r] = "primary") <=> (at # {})
                /\ at # {} =>
                     result[r][1] =
                       DigitValue[t[SkipSpaces(t, Min(at) + Len(final_score_head))]]

\* C4: without the primary pattern the score is the leftmost standalone
\* digit 0-4 of the last keyword line that has one; a digit inside a longer
\* number or word is never the score.
C4_FallbackStandaloneDigit ==
    \A r \in DOMAIN pc :
        (Answered(r) /\ path[r] # "primary") =>
            LET lines == Split(resp[r].text)
            IN  result[r][1] = StandaloneScan(lines, Len(lines))

\* C5: when neither the primary pattern nor the reverse scan yields a digit
\* the request returns score 0 together with the narrative as the report.
C5_DefaultKeepsNarrative ==
    \A r \in DOMAIN pc :
        (Answered(r) /\ path[r] = "default") => result[r] = <<0, resp[r].text>>

\* C6: no exception leaves process_and_display; a request that has not
\* returned yet can always take its next step, so it ends by returning a
\* pair; and when the call of the generative model failed the pair is score
\* 0 with a report that states the reason.
C6_AlwaysReturns ==
    \A r \in DOMAIN pc :
        /\ pc[r] # "raised"
        /\ pc[r] # "done" =>
             ENABLED (Request(r) \/ RespondConc(r) \/ Fail(r) \/ Parse(r))
        /\ pc[r] = "done" =>
             /\ Len(result[r]) = 2
             /\ resp[r].kind = "error" =>
                  /\ result[r][1] = 0
                  /\ Contains(result[r][2], resp[r].msg)

\* a failed call was turned into score 0 and a report with the reason
C6_Witness ==
    \E r \in DOMAIN pc :
        /\ pc[r] = "done"
        /\ resp[r].kind = "error"
        /\ resp[r].msg = <<"q", "u", "o", "t", "a">>
        /\ result[r] = <<0, ErrorPrefix \o <<"q", "u", "o", "t", "a">>>>

\* C7: a request whose call failed and a request whose call was answered
\* never return the same (score, report).
C7_FailureDistinguishable ==
    \A r1, r2 \in DOMAIN pc :
        (pc[r1] = "done" /\ resp[r1].kind = "error" /\ Answered(r2))
        => result[r1] # result[r2]

\* C8: the score of every returned result is one of 0, 1, 2, 3, 4.
C8_ScoreInRange ==
    \A r \in DOMAIN pc : pc[r] = "done" => result[r][1] \in 0..4

\* a score digit next to a digit outside the range was parsed
C8_Witness ==
    \E r \in DOMAIN pc :
        /\ Answered(r)
        /\ path[r] = "fallback"
        /\ result[r] = <<4, <<"7", "4", "s", "c", "o", "r", "e">>>>

\* C9: for each of the 16 comparisons the prompt's rubric awards exactly the
\* score of the rule table (0 whenever the amount does not match).
C9_RubricIsTable ==
    \A r \in DOMAIN pc :
        flags[r] # NoFlags =>
            /\ PromptPoints(flags[r]) # {}
            /\ Max(PromptPoints(flags[r])) = TableScore(flags[r])

\* C10: whatever the other requests do, a request returns what it would
\* return alone: a function of its own two texts and of the answer to it.
C10_RequestsIndependent ==
    \A r \in DOMAIN pc :
        /\ pc[r] = "done" =>
             result[r] = RunAlone(invoice_text[r], sms_text[r], resp[r])
        /\ pc[r] \in {"idle", "calling", "parsing"} => result[r] = NoResult

\* a request returned while another one, answered differently, was still
\* between its answer and its parse
C10_Witness ==
    /\ pc[1] = "parsing"
    /\ Answered(2)
    /\ resp[1].text # resp[2].text
    /\ result[2][2] # text[1]

=============================================================================
